---- MODULE Spec2Model ----
(***************************************************************************)
(* InterSearch (src/server.mjs): the GET /search fallback handler, its     *)
(* result cache, and the POST /ai handler.                                 *)
(*                                                                         *)
(* Strings are sequences of one-character strings, so that trimming is     *)
(* computed and not assumed.  A JavaScript object is a record; an object   *)
(* that lacks a property is a record without that field.                   *)
(*                                                                         *)
(* Every `await` of the handler is a suspension point: a request is one    *)
(* process whose position (pc) is the adapter call it is waiting for, and  *)
(* the code between two awaits is one atomic action.                       *)
(***************************************************************************)
EXTENDS Integers, Sequences, FiniteSets, TLC

(* ------------------------------ bounds -------------------------------- *)

\* Number of request slots: requests that can be in flight at once.
NumSlots == 2

\* The clock advances in steps of one TTL, at most MaxTicks times: an entry
\* is seen at age 0, at age ttl (the last moment it is fresh) and beyond.
MaxTicks == 2

\* Capacity of the cache in the model.  The program configures max: 500
\* (src/server.mjs:21); the model scales it down so that capacity pressure
\* is reached with the few distinct queries of Queries.
CacheMax == 2

Slots == 1 .. NumSlots

(* ----------------------------- constants ------------------------------ *)

\* new LRU({ ..., ttl: 1000 * 60 * 5 })
ttl == 1000 * 60 * 5

TickMs == ttl

(* ------------------------------ strings ------------------------------- *)

Whitespace == {" "}

RECURSIVE TrimStart(_)
TrimStart(s) ==
  IF s # << >> /\ Head(s) \in Whitespace THEN TrimStart(Tail(s)) ELSE s

RECURSIVE TrimEnd(_)
TrimEnd(s) ==
  IF s # << >> /\ s[Len(s)] \in Whitespace
  THEN TrimEnd(SubSeq(s, 1, Len(s) - 1))
  ELSE s

\* String.prototype.trim
trim(s) == TrimEnd(TrimStart(s))

\* function cleanText(t) { return (t || "").toString().trim(); }
\* t is a string here; the empty string is falsy and is replaced by "".
cleanText(t) == trim(IF t = << >> THEN << >> ELSE t)

(* ------------------------------ inputs -------------------------------- *)

\* req.query of the requests the environment sends: with a q parameter
\* (empty, blank, padded, differing in case or punctuation) or without one.
Queries ==
  { [q |-> << >>],
    [q |-> <<" ">>],
    [q |-> <<"a">>],
    [q |-> <<" ", "a", " ">>],
    [q |-> <<"A">>],
    [q |-> <<"a", ".">>],
    [lang |-> <<"e", "n">>] }

\* req.body of the POST /ai requests the environment sends: with a prompt
\* (padded, blank or empty) or without one (express.json() leaves {} when
\* the request has no JSON body).
Bodies ==
  { [prompt |-> <<" ", "h", "i", " ">>],
    [prompt |-> <<" ">>],
    [prompt |-> << >>],
    [text |-> <<"h", "i">>],
    << >> }

\* Items of a Custom Search response (data.items): objects with more
\* properties than the three the adapter copies.
Item1 == [title |-> "t1", snippet |-> "s1", link |-> "l1", kind |-> "customsearch#result"]
Item2 == [title |-> "t2", snippet |-> "s2", link |-> "l2", kind |-> "customsearch#result"]

\* What the Custom Search endpoint answers: a non-success status, or a
\* success whose JSON body has or lacks an items array.
GoogleReplies ==
  { [ok |-> FALSE, status |-> "403"],
    [ok |-> TRUE, data |-> [kind |-> "customsearch#search"]],
    [ok |-> TRUE, data |-> [items |-> <<Item2, Item1>>]] }

\* What the chat completions endpoint answers: a non-success status with a
\* text, or a success whose JSON body has a first choice with content or has
\* no choice at all.
OpenaiReplies ==
  { [ok |-> FALSE, status |-> "503", text |-> "overloaded"],
    [ok |-> TRUE, data |-> [choices |-> <<[message |-> [content |-> <<" ", "x">>]]>>]],
    [ok |-> TRUE, data |-> [choices |-> << >>]] }

(* ------------------------ results of async calls ---------------------- *)

Threw(msg) == [threw |-> msg]
Returned(v) == [value |-> v]
IsThrow(o) == "threw" \in DOMAIN o
Pending == [pending |-> TRUE]

(* ------------------------------- state -------------------------------- *)

VARIABLES
  OPENAI_API_KEY,  \* process.env.OPENAI_API_KEY || ""
  GOOGLE_API_KEY,  \* process.env.GOOGLE_API_KEY || ""
  GOOGLE_CX,       \* process.env.GOOGLE_CX || ""
  now,             \* the clock the cache reads, in milliseconds
  cache,           \* the LRU: entries [key, value, start], least recently used first
  pc,              \* per slot: "idle", "primary", "google", "openai", "done"
  q,               \* per slot: const q of the handler
  googleResults,   \* per slot: let googleResults of the handler
  calls,           \* per slot: the adapter calls made, with arguments and result
  sent,            \* per slot: the responses sent, [status, body]
  reqQuery,        \* per slot: req.query as it arrived
  aiPc,            \* the POST /ai request: "idle", "fetch", "done"
  reqBody,         \* the POST /ai request: req.body as it arrived
  prompt,          \* the POST /ai request: const prompt
  fetched,         \* the POST /ai request: the upstream requests made, with reply
  aiSent,          \* the POST /ai request: the responses sent, [status, body]
  cache0,          \* per slot, while in flight: the cache when the handler started
  writes,          \* per slot: the cache.set calls made, [key, value]
  peer,            \* per slot: a slot resolving the same q when this one missed, or 0
  lastOut,         \* per key: what the resolution that last stored it answered, and when
  completed,       \* per key: outcomes answered for it while its entry stayed in the cache
  recency,         \* keys in order of their last use (cache.get hit or cache.set)
  lastVictim       \* the entry evicted last, [key, start], or NoOut

envVars == <<OPENAI_API_KEY, GOOGLE_API_KEY, GOOGLE_CX>>
reqVars == <<pc, q, googleResults, calls, sent>>
aiVars == <<aiPc, reqBody, prompt, fetched, aiSent>>
histVars == <<reqQuery, cache0, writes, peer, lastOut, completed, recency, lastVictim>>
vars == <<envVars, now, cache, reqVars, aiVars, histVars>>

(* ------------------------- the cache (lru-cache) ---------------------- *)

\* const cache = new LRU({ max: 500, ttl: 1000 * 60 * 5 }): the operations of
\* lru-cache the handler calls, under these options and the library's
\* defaults (no allowStale, no updateAgeOnGet, no updateAgeOnHas).

KeysOf(c) == { c[i].key : i \in DOMAIN c }

IndexOf(c, k) == CHOOSE i \in DOMAIN c : c[i].key = k

Without(c, k) == SelectSeq(c, LAMBDA e : e.key # k)

\* An entry is stale once more than ttl has passed since it was set.
isStale(e, t) == t - e.start > ttl

\* cache.has(k): a fresh entry is present; changes nothing.
has(c, k, t) == \E i \in DOMAIN c : c[i].key = k /\ ~isStale(c[i], t)

\* The value of JavaScript's undefined.
Undefined == [undefined |-> TRUE]

\* cache.get(k), its value: the entry's value, undefined when missing or stale.
getValue(c, k, t) ==
  IF has(c, k, t) THEN c[IndexOf(c, k)].value ELSE Undefined

\* The option updateAgeOnGet with the constructor call changed to set it.
updateAgeOnGet_Set == TRUE

\* new LRU({ max, ttl }) sets no updateAgeOnGet; the library's default is false.
updateAgeOnGet == FALSE

\* cache.get(k), its effect: a fresh entry becomes the most recently used
\* and, unless updateAgeOnGet, keeps its start; a stale one is deleted.
getCache(c, k, t) ==
  LET e == c[IndexOf(c, k)] IN
  IF k \notin KeysOf(c) THEN c
  ELSE IF isStale(e, t) THEN Without(c, k)
  ELSE Append(Without(c, k), IF updateAgeOnGet THEN [e EXCEPT !.start = t] ELSE e)

\* cache.set(k, v): replaces the entry of k or adds one, most recently used
\* and starting now; a new key at capacity first evicts the least recently
\* used entry.
set(c, k, v, t) ==
  LET e == [key |-> k, value |-> v, start |-> t] IN
  IF k \in KeysOf(c) THEN Append(Without(c, k), e)
  ELSE IF Len(c) >= CacheMax THEN Append(Tail(c), e)
  ELSE Append(c, e)

(* ----------------------------- adapters ------------------------------- *)

\* async function primarySearch(q) { return []; }
primarySearch(query) == << >>

\* (data.items || []).map((it) => ({ title, snippet, link, source: "google" }))
MapItems(data) ==
  LET items == IF "items" \in DOMAIN data THEN data.items ELSE << >> IN
  [i \in DOMAIN items |->
     [title |-> items[i].title, snippet |-> items[i].snippet,
      link |-> items[i].link, source |-> "google"]]

\* async function googleSearch(q): the ways one call can end.
googleSearch(query) ==
  IF GOOGLE_API_KEY = "" \/ GOOGLE_CX = ""
  THEN { Threw(<<"Google API key or CX not configured.">>) }
  ELSE { IF ~rep.ok THEN Threw(<<"Google API error ", rep.status>>)
         ELSE Returned(MapItems(rep.data)) : rep \in GoogleReplies }

\* data?.choices?.[0]?.message?.content ?? ""
Content(data) ==
  IF /\ "choices" \in DOMAIN data
     /\ Len(data.choices) >= 1
     /\ "message" \in DOMAIN data.choices[1]
     /\ "content" \in DOMAIN data.choices[1].message
  THEN data.choices[1].message.content
  ELSE << >>

\* async function openaiChatAnswer(q, context = []): the ways one call can end.
openaiChatAnswer(query, context) ==
  IF OPENAI_API_KEY = ""
  THEN { Threw(<<"OPENAI_API_KEY not set.">>) }
  ELSE { IF ~rep.ok THEN Threw(<<"OpenAI error ", rep.status, ": ", rep.text>>)
         ELSE Returned([text |-> cleanText(Content(rep.data)), raw |-> rep.data])
         : rep \in OpenaiReplies }

(* ------------------------- history bookkeeping ------------------------ *)

\* req.query.q || ""
QueryQ(query) == IF "q" \in DOMAIN query THEN query.q ELSE << >>

\* The keys a request can have: the non-empty trimmed queries.
Keys == { trim(QueryQ(query)) : query \in Queries } \ { << >> }

NoOut == [none |-> TRUE]

\* The outcome a 200 body carries: the body without the cached flag.
Outcome(body) == [f \in DOMAIN body \ {"cached"} |-> body[f]]

\* { ...value, cached: true }; spreading undefined adds no property.
SpreadCached(value) ==
  LET o == IF value = Undefined THEN << >> ELSE value IN
  [f \in DOMAIN o \cup {"cached"} |-> IF f = "cached" THEN TRUE ELSE o[f]]

InFlight == {"primary", "google", "openai"}

\* lastOut, completed and recency once the cache has become c2: what is
\* recorded for a key goes with its entry.
LastOutIn(c2) == [k \in Keys |-> IF k \in KeysOf(c2) THEN lastOut[k] ELSE NoOut]
CompletedIn(c2) == [k \in Keys |-> IF k \in KeysOf(c2) THEN completed[k] ELSE {}]
RecencyIn(c2) == SelectSeq(recency, LAMBDA k : k \in KeysOf(c2))
Touch(rec, k) == Append(SelectSeq(rec, LAMBDA x : x # k), k)

\* The call log of slot r with the result of its pending (last) call filled in.
Settled(r, out) == [calls[r] EXCEPT ![Len(calls[r])].ret = out]
Call(fn, args) == [fn |-> fn, args |-> args, ret |-> Pending]

Send(r, status, body) ==
  sent' = [sent EXCEPT ![r] = Append(@, [status |-> status, body |-> body])]

(* ------------------------------ handler ------------------------------- *)

\* What every step that changes the cache to c2 records.
Record(c2) ==
  /\ cache' = c2
  /\ lastVictim' = IF KeysOf(cache) \subseteq KeysOf(c2) THEN lastVictim
                   ELSE LET k == CHOOSE k \in KeysOf(cache) : k \notin KeysOf(c2)
                        IN [key |-> k, start |-> cache[IndexOf(cache, k)].start]

\* The request of slot r is over.
Finish(r) ==
  /\ pc' = [pc EXCEPT ![r] = "done"]
  /\ cache0' = [cache0 EXCEPT ![r] = << >>]

\* StoreAndSend storing only `if (!cache.has(q))`: the first writer wins.
StoreAndSend_IfAbsent(r, result) ==
  LET c2 == IF has(cache, q[r], now) THEN cache ELSE set(cache, q[r], result, now) IN
  /\ Record(c2)
  /\ Send(r, 200, result)
  /\ Finish(r)
  /\ writes' = [writes EXCEPT ![r] = IF has(cache, q[r], now) THEN @
                                     ELSE Append(@, [key |-> q[r], value |-> result])]
  /\ lastOut' = [LastOutIn(c2) EXCEPT ![q[r]] = [body |-> result, at |-> now]]
  /\ completed' = [CompletedIn(c2) EXCEPT ![q[r]] = @ \cup {[out |-> result, at |-> now]}]
  /\ recency' = Touch(RecencyIn(c2), q[r])

\* StoreAndSend without its cache.set: the result is answered and not stored.
StoreAndSend_NoSet(r, result) ==
  /\ Send(r, 200, result)
  /\ Finish(r)
  /\ UNCHANGED <<cache, writes, lastOut, completed, recency, lastVictim>>

\* StoreAndSend storing under the query as it arrived, untrimmed.
StoreAndSend_RawKey(r, result) ==
  LET k == QueryQ(reqQuery[r])
      c2 == set(cache, k, result, now) IN
  /\ cache' = c2
  /\ Send(r, 200, result)
  /\ Finish(r)
  /\ writes' = [writes EXCEPT ![r] = Append(@, [key |-> k, value |-> result])]
  /\ UNCHANGED <<lastOut, completed, recency, lastVictim>>

\* StoreAndSend storing the result merged into the value already stored
\* under the query.
StoreAndSend_Merge(r, result) ==
  LET old == IF q[r] \in KeysOf(cache) THEN cache[IndexOf(cache, q[r])].value ELSE << >>
      merged == [f \in DOMAIN old \cup DOMAIN result |->
                   IF f \in DOMAIN result THEN result[f] ELSE old[f]]
      c2 == set(cache, q[r], merged, now) IN
  /\ Record(c2)
  /\ Send(r, 200, result)
  /\ Finish(r)
  /\ writes' = [writes EXCEPT ![r] = Append(@, [key |-> q[r], value |-> merged])]
  /\ lastOut' = [LastOutIn(c2) EXCEPT ![q[r]] = [body |-> result, at |-> now]]
  /\ completed' = [CompletedIn(c2) EXCEPT ![q[r]] = @ \cup {[out |-> result, at |-> now]}]
  /\ recency' = Touch(RecencyIn(c2), q[r])

\* const result = {...}; cache.set(q, result); return res.json(result);
\* (lines 105-107, 114-116, 123-125)
StoreAndSend(r, result) ==
  LET c2 == set(cache, q[r], result, now) IN
  /\ Record(c2)
  /\ Send(r, 200, result)
  /\ Finish(r)
  /\ writes' = [writes EXCEPT ![r] = Append(@, [key |-> q[r], value |-> result])]
  /\ lastOut' = [LastOutIn(c2) EXCEPT ![q[r]] = [body |-> result, at |-> now]]
  /\ completed' = [CompletedIn(c2) EXCEPT ![q[r]] = @ \cup {[out |-> result, at |-> now]}]
  /\ recency' = Touch(RecencyIn(c2), q[r])

\* const ai = await openaiChatAnswer(q, googleResults): the call is made
\* (line 122) and the handler waits for it.
CallOpenai(r, log, context) ==
  /\ calls' = [calls EXCEPT ![r] = Append(log, Call("openaiChatAnswer", <<q[r], context>>))]
  /\ pc' = [pc EXCEPT ![r] = "openai"]
  /\ UNCHANGED <<cache, sent, cache0, writes, lastOut, completed, recency, lastVictim>>

\* if (!q) return res.status(400).json({ error: "Missing ?q=" });  (line 99)
RejectQuery(r) ==
  /\ sent' = [sent EXCEPT ![r] = <<[status |-> 400, body |-> [error |-> <<"Missing ?q=">>]]>>]
  /\ calls' = [calls EXCEPT ![r] = << >>]
  /\ Finish(r)
  /\ UNCHANGED <<cache, lastOut, completed, recency, lastVictim>>

\* Line 101 calls the cache twice, cache.has(q) and then cache.get(q), and
\* each call reads the clock for itself: the read sees the time of the test
\* or a later one.  Milliseconds that pass between the two calls.
Elapsed == {0, 1}

\* The cache, and what is recorded for its keys, once the hit path has read
\* key k from it at time t: a fresh entry has been used, a stale one is gone.
AfterGet(c2, k) ==
  /\ cache' = c2
  /\ lastOut' = LastOutIn(c2)
  /\ completed' = CompletedIn(c2)
  /\ recency' = IF k \in KeysOf(c2) THEN Touch(RecencyIn(c2), k) ELSE RecencyIn(c2)
  /\ UNCHANGED lastVictim

\* CacheHit reading with cache.peek: the hit is no use of the entry.
CacheHit_Peek(r, k) ==
  \E d \in Elapsed :
    /\ sent' = [sent EXCEPT ![r] =
                  <<[status |-> 200, body |-> SpreadCached(getValue(cache, k, now + d))]>>]
    /\ calls' = [calls EXCEPT ![r] = << >>]
    /\ Finish(r)
    /\ UNCHANGED <<cache, lastVictim, lastOut, completed>>
    /\ recency' = Touch(recency, k)

\* return res.json({ ...cache.get(q), cached: true });  (line 101), reached
\* when cache.has(q) was true at time now.
CacheHit(r, k) ==
  \E d \in Elapsed :
    /\ sent' = [sent EXCEPT ![r] =
                  <<[status |-> 200, body |-> SpreadCached(getValue(cache, k, now + d))]>>]
    /\ calls' = [calls EXCEPT ![r] = << >>]
    /\ Finish(r)
    /\ AfterGet(getCache(cache, k, now + d), k)

\* const primary = await primarySearch(q);  (line 103): the call is made.
CallPrimary(r, k) ==
  /\ sent' = [sent EXCEPT ![r] = << >>]
  /\ calls' = [calls EXCEPT ![r] = <<Call("primarySearch", <<k>>)>>]
  /\ pc' = [pc EXCEPT ![r] = "primary"]
  /\ cache0' = [cache0 EXCEPT ![r] = cache]
  /\ UNCHANGED <<cache, lastOut, completed, recency, lastVictim>>

\* app.get("/search", ...), lines 96-103: a request arrives in slot r.
Search(r, query) ==
  LET k == trim(QueryQ(query))
      hit == has(cache, k, now) IN
  /\ pc[r] \in {"idle", "done"}
  /\ reqQuery' = [reqQuery EXCEPT ![r] = query]
  /\ q' = [q EXCEPT ![r] = k]
  /\ googleResults' = [googleResults EXCEPT ![r] = << >>]
  /\ writes' = [writes EXCEPT ![r] = << >>]
  /\ IF k = << >> THEN RejectQuery(r)
     ELSE IF hit THEN CacheHit(r, k)
     ELSE CallPrimary(r, k)
  /\ peer' = [s \in Slots |->
               IF s = r
               THEN IF k # << >> /\ ~hit /\ \E o \in Slots \ {r} : pc[o] \in InFlight /\ q[o] = k
                    THEN CHOOSE o \in Slots \ {r} : pc[o] \in InFlight /\ q[o] = k
                    ELSE 0
               ELSE IF peer[s] = r THEN 0 ELSE peer[s]]
  /\ UNCHANGED <<envVars, now, aiVars>>

\* Lines 103-112: primarySearch has returned.
PrimaryDone(r) ==
  LET primary == primarySearch(q[r])
      log == Settled(r, Returned(primary)) IN
  /\ pc[r] = "primary"
  /\ IF Len(primary) # 0
     THEN /\ StoreAndSend(r, [source |-> "primary", results |-> primary])
          /\ calls' = [calls EXCEPT ![r] = log]
     ELSE /\ calls' = [calls EXCEPT ![r] = Append(log, Call("googleSearch", <<q[r]>>))]
          /\ pc' = [pc EXCEPT ![r] = "google"]
          /\ UNCHANGED <<cache, sent, cache0, writes, lastOut, completed, recency, lastVictim>>
  /\ UNCHANGED <<envVars, now, q, googleResults, peer, reqQuery, aiVars>>

\* CatchGoogle without the inner try: the error reaches the outer catch.
CatchGoogle_Rethrow(r, log, err) ==
  /\ calls' = [calls EXCEPT ![r] = log]
  /\ Send(r, 500, [error |-> err])
  /\ Finish(r)
  /\ UNCHANGED <<cache, writes, lastOut, completed, recency, lastVictim, googleResults>>

\* CatchGoogle retrying the web search instead of moving on.
CatchGoogle_Retry(r, log, err) ==
  /\ calls' = [calls EXCEPT ![r] = Append(log, Call("googleSearch", <<q[r]>>))]
  /\ UNCHANGED <<pc, cache, sent, cache0, writes, lastOut, completed, recency, lastVictim,
                 googleResults>>

\* catch (err) { console.warn("Google search failed:", err.message); }
\* (lines 118-120): googleResults keeps its value and line 122 runs.
CatchGoogle(r, log, err) ==
  /\ CallOpenai(r, log, googleResults[r])
  /\ UNCHANGED googleResults

\* GoogleReturned testing `if (googleResults)`: an array is always truthy.
GoogleReturned_Truthy(r, log, items) ==
  /\ googleResults' = [googleResults EXCEPT ![r] = items]
  /\ StoreAndSend(r, [source |-> "google", results |-> items])
  /\ calls' = [calls EXCEPT ![r] = log]

\* googleResults = await googleSearch(q); if (googleResults.length) {...}
\* (lines 112-117), else on to line 122.
GoogleReturned(r, log, items) ==
  /\ googleResults' = [googleResults EXCEPT ![r] = items]
  /\ IF Len(items) # 0
     THEN /\ StoreAndSend(r, [source |-> "google", results |-> items])
          /\ calls' = [calls EXCEPT ![r] = log]
     ELSE CallOpenai(r, log, items)

\* Lines 112-122: googleSearch has returned or thrown.
GoogleDone(r) ==
  /\ pc[r] = "google"
  /\ \E out \in googleSearch(q[r]) :
       IF IsThrow(out)
       THEN CatchGoogle(r, Settled(r, out), out.threw)
       ELSE GoogleReturned(r, Settled(r, out), out.value)
  /\ UNCHANGED <<envVars, now, q, peer, reqQuery, aiVars>>

\* CatchSearch that also caches the failure under the query.
CatchSearch_Caches(r, err) ==
  LET c2 == set(cache, q[r], [error |-> err], now) IN
  /\ Record(c2)
  /\ Send(r, 500, [error |-> err])
  /\ Finish(r)
  /\ writes' = [writes EXCEPT ![r] = Append(@, [key |-> q[r], value |-> [error |-> err]])]
  /\ lastOut' = LastOutIn(c2)
  /\ completed' = CompletedIn(c2)
  /\ recency' = Touch(RecencyIn(c2), q[r])

\* CatchSearch that only logs the error and sends no response.
CatchSearch_Silent(r, err) ==
  /\ Finish(r)
  /\ UNCHANGED <<cache, sent, writes, lastOut, completed, recency, lastVictim>>

\* catch (err) { ...; res.status(500).json({ error: err.message }); }
\* (lines 126-129)
CatchSearch(r, err) ==
  /\ Send(r, 500, [error |-> err])
  /\ Finish(r)
  /\ UNCHANGED <<cache, writes, lastOut, completed, recency, lastVictim>>

\* Lines 122-129: openaiChatAnswer has returned or thrown.
OpenaiDone(r) ==
  /\ pc[r] = "openai"
  /\ \E out \in openaiChatAnswer(q[r], googleResults[r]) :
       /\ calls' = [calls EXCEPT ![r] = Settled(r, out)]
       /\ IF IsThrow(out)
          THEN CatchSearch(r, out.threw)
          ELSE StoreAndSend(r, [source |-> "openai", answer |-> out.value.text])
  /\ UNCHANGED <<envVars, now, q, googleResults, peer, reqQuery, aiVars>>

(* ------------------------------ POST /ai ------------------------------ *)

\* req.body?.prompt; a missing prompt is undefined, which cleanText replaces
\* by "" as it does the empty string.
BodyPrompt(body) == IF "prompt" \in DOMAIN body THEN body.prompt ELSE << >>

\* AiPrompt without cleanText: the prompt is tested as it arrived.
AiPrompt_Raw(body) == BodyPrompt(body)

\* const prompt = cleanText(req.body?.prompt);  (line 135)
AiPrompt(body) == cleanText(BodyPrompt(body))

\* const messages = [{ role: "system", ... }, { role: "user", content: prompt }]
\* (lines 138-145)
Messages(p) ==
  << [role |-> "system",
      content |-> <<"You are \"I\", an intelligent assistant similar to ChatGPT. Be accurate, clear, and safe.">>],
     [role |-> "user", content |-> p] >>

\* The request of lines 154-161: the endpoint, the Authorization header and
\* the messages of the body.
ChatRequest(p) ==
  [url |-> "https://api.openai.com/v1/chat/completions",
   authorization |-> <<"Bearer ", OPENAI_API_KEY>>,
   messages |-> Messages(p)]

\* What the chat completions endpoint answers to the request of /ai: as to
\* openaiChatAnswer, or that the key of the Authorization header is invalid.
AiReplies ==
  OpenaiReplies \cup { [ok |-> FALSE, status |-> "401", text |-> "invalid_api_key"] }

\* if (!prompt) return res.status(400).json({ error: "prompt required" });
\* (line 136)
RejectPrompt ==
  /\ aiSent' = <<[status |-> 400, body |-> [error |-> <<"prompt required">>]]>>
  /\ fetched' = << >>
  /\ aiPc' = "done"

\* const r = await fetch(...)  (lines 154-161): the request is sent and the
\* handler waits for the reply.
CallFetch(p) ==
  /\ aiSent' = << >>
  /\ fetched' = <<[req |-> ChatRequest(p), ret |-> Pending]>>
  /\ aiPc' = "fetch"

\* app.post("/ai", ...), lines 133-161: a request arrives.
Ai(body) ==
  LET p == AiPrompt(body) IN
  /\ aiPc \in {"idle", "done"}
  /\ reqBody' = body
  /\ prompt' = p
  /\ IF p = << >> THEN RejectPrompt ELSE CallFetch(p)
  /\ UNCHANGED <<envVars, now, cache, reqVars, histVars>>

\* if (!r.ok) { throw new Error(`OpenAI error ${r.status}: ${txt}`) } and
\* the catch of lines 171-174.
AiFailed(rep) ==
  /\ aiSent' = <<[status |-> 500,
                  body |-> [error |-> <<"OpenAI error ", rep.status, ": ", rep.text>>]]>>
  /\ UNCHANGED <<cache, histVars>>

\* AiReplied that also stores the reply in the cache under the prompt.
AiReplied_Caches(rep) ==
  LET result == [assistant |-> "I", reply |-> cleanText(Content(rep.data))]
      c2 == set(cache, prompt, result, now) IN
  /\ aiSent' = <<[status |-> 200, body |-> result]>>
  /\ cache' = c2
  /\ UNCHANGED histVars

\* const reply = cleanText(data?.choices?.[0]?.message?.content ?? "");
\* res.json({ assistant: "I", reply });  (lines 168-170)
AiReplied(rep) ==
  /\ aiSent' = <<[status |-> 200,
                  body |-> [assistant |-> "I", reply |-> cleanText(Content(rep.data))]]>>
  /\ UNCHANGED <<cache, histVars>>

\* Lines 163-174: the reply of the endpoint has arrived.  Reading its body
\* (await r.text(), await r.json()) touches nothing the handlers share.
AiDone ==
  /\ aiPc = "fetch"
  /\ \E rep \in AiReplies :
       /\ fetched' = [fetched EXCEPT ![1].ret = rep]
       /\ IF ~rep.ok THEN AiFailed(rep) ELSE AiReplied(rep)
  /\ aiPc' = "done"
  /\ UNCHANGED <<envVars, now, reqVars, reqBody, prompt>>

\* Time passes.  Outcomes whose entry has expired are out of the TTL window.
Tick(limit) ==
  /\ now + TickMs <= limit * TickMs
  /\ now' = now + TickMs
  /\ completed' = [k \in Keys |-> { c \in completed[k] : now' - c.at <= ttl }]
  /\ UNCHANGED <<envVars, cache, reqVars, aiVars, reqQuery, cache0, writes, peer, lastOut,
                 recency, lastVictim>>

\* process.env of the deployments considered: everything set, or one of the
\* three variables missing (a missing variable reads as "", lines 17-19).
Environments ==
  { [OPENAI_API_KEY |-> "sk", GOOGLE_API_KEY |-> "gk", GOOGLE_CX |-> "cx"],
    [OPENAI_API_KEY |-> "",   GOOGLE_API_KEY |-> "gk", GOOGLE_CX |-> "cx"],
    [OPENAI_API_KEY |-> "sk", GOOGLE_API_KEY |-> "",   GOOGLE_CX |-> "cx"],
    [OPENAI_API_KEY |-> "sk", GOOGLE_API_KEY |-> "gk", GOOGLE_CX |-> ""] }

Init ==
  /\ \E env \in Environments :
       /\ OPENAI_API_KEY = env.OPENAI_API_KEY
       /\ GOOGLE_API_KEY = env.GOOGLE_API_KEY
       /\ GOOGLE_CX = env.GOOGLE_CX
  /\ now = 0
  /\ cache = << >>
  /\ pc = [r \in Slots |-> "idle"]
  /\ q = [r \in Slots |-> << >>]
  /\ googleResults = [r \in Slots |-> << >>]
  /\ calls = [r \in Slots |-> << >>]
  /\ sent = [r \in Slots |-> << >>]
  /\ reqQuery = [r \in Slots |-> << >>]
  /\ aiPc = "idle"
  /\ reqBody = << >>
  /\ prompt = << >>
  /\ fetched = << >>
  /\ aiSent = << >>
  /\ cache0 = [r \in Slots |-> << >>]
  /\ writes = [r \in Slots |-> << >>]
  /\ peer = [r \in Slots |-> 0]
  /\ lastOut = [k \in Keys |-> NoOut]
  /\ completed = [k \in Keys |-> {}]
  /\ recency = << >>
  /\ lastVictim = NoOut

\* The requests of a workload: slots S receive the queries Qs.
Requests(S, Qs) ==
  \/ \E r \in S, query \in Qs : Search(r, query)
  \/ \E r \in S : PrimaryDone(r)
  \/ \E r \in S : GoogleDone(r)
  \/ \E r \in S : OpenaiDone(r)

\* Concurrent requests for one key, written with padding, and blank
\* requests, while an entry ages up to its TTL.
QueriesOneKey == { [q |-> <<" ">>], [q |-> <<" ", "a", " ">>] }

Next == Requests(Slots, QueriesOneKey) \/ Tick(MaxTicks - 1)

Spec == Init /\ [][Next]_vars

\* Two clients at once asking for one key, where every adapter call that has
\* been made returns or throws in the end: the handler waiting for it is
\* resumed.
NextLive == Requests({1, NumSlots}, QueriesOneKey) \/ Tick(MaxTicks - 1)

SpecLive ==
  /\ Init /\ [][NextLive]_vars
  /\ \A r \in {1, NumSlots} :
       WF_vars(PrimaryDone(r)) /\ WF_vars(GoogleDone(r)) /\ WF_vars(OpenaiDone(r))

\* Requests for every key, served one at a time, while time passes.
NextCache == Requests({1}, Queries) \/ Tick(MaxTicks)

SpecCache == Init /\ [][NextCache]_vars

\* POST /ai requests, one at a time, next to the GET /search requests of one
\* slot.
NextAi ==
  \/ Requests({1}, QueriesOneKey)
  \/ \E body \in Bodies : Ai(body)
  \/ AiDone
  \/ Tick(MaxTicks - 1)

SpecAi == Init /\ [][NextAi]_vars

\* Two clients at once: one asks for "a" and "A", the other for " a " and
\* "a.", so that they meet on one key and fill the cache with others.
NextStore ==
  \/ Requests({1}, { [q |-> <<"a">>], [q |-> <<"A">>] })
  \/ Requests({NumSlots}, { [q |-> <<" ", "a", " ">>], [q |-> <<"a", ".">>] })

SpecStore == Init /\ [][NextStore]_vars

(* ------------------------------ claims -------------------------------- *)

\* The calls of slot r to adapter fn, in order.
CallsOf(r, fn) == SelectSeq(calls[r], LAMBDA c : c.fn = fn)

HasReturned(c) == "value" \in DOMAIN c.ret
HasThrown(c) == IsThrow(c.ret)

\* The only response of slot r.
Resp(r) == sent[r][1]

\* The entries of cache c stored under key k.
EntriesOf(c, k) == { i \in DOMAIN c : c[i].key = k }

WebFailed(r) == \E i \in DOMAIN calls[r] :
  calls[r][i].fn = "googleSearch" /\ HasThrown(calls[r][i])

GenSucceeded(r) == \E i \in DOMAIN calls[r] :
  calls[r][i].fn = "openaiChatAnswer" /\ HasReturned(calls[r][i])

GenFailed(r) == \E i \in DOMAIN calls[r] :
  calls[r][i].fn = "openaiChatAnswer" /\ HasThrown(calls[r][i])

\* C2: when googleSearch has thrown, its error is in no response of the
\* request; and when openaiChatAnswer then returns, the request is answered
\* once, 200 with source "openai" and the returned text as answer.
C2_WebFailureAbsorbed ==
  \A r \in Slots :
    WebFailed(r) =>
      LET web == CallsOf(r, "googleSearch")[1]
          gen == CallsOf(r, "openaiChatAnswer")[1] IN
      /\ \A i \in DOMAIN sent[r] :
           "error" \in DOMAIN sent[r][i].body => sent[r][i].body.error # web.ret.threw
      /\ GenSucceeded(r) =>
           sent[r] = <<[status |-> 200,
                        body |-> [source |-> "openai", answer |-> gen.ret.value.text]]>>

C2_Witness ==
  \E r \in Slots :
    /\ pc[r] = "done" /\ WebFailed(r) /\ GenSucceeded(r)
    /\ Len(sent[r]) = 1 /\ Resp(r).status = 200 /\ Resp(r).body.source = "openai"

\* C4: once primarySearch has returned [] and googleSearch has thrown or
\* returned [], openaiChatAnswer has been called exactly once, with the query
\* and, as context, what googleSearch returned ([] when it threw).
C4_GenerativeAlwaysCalled ==
  \A r \in Slots : \A i \in DOMAIN calls[r] :
    LET web == calls[r][i] IN
    ( /\ web.fn = "googleSearch"
      /\ calls[r][1].fn = "primarySearch" /\ calls[r][1].ret = Returned(<< >>)
      /\ \/ HasThrown(web)
         \/ HasReturned(web) /\ Len(web.ret.value) = 0 )
    => /\ Len(CallsOf(r, "openaiChatAnswer")) = 1
       /\ CallsOf(r, "openaiChatAnswer")[1].args =
            <<q[r], IF HasThrown(web) THEN << >> ELSE web.ret.value>>

C4_Witness ==
  /\ \E r \in Slots :
       /\ WebFailed(r)
       /\ Len(CallsOf(r, "openaiChatAnswer")) = 1
       /\ CallsOf(r, "openaiChatAnswer")[1].args = <<q[r], << >>>>
  /\ \E r \in Slots :
       /\ \E i \in DOMAIN calls[r] :
            /\ calls[r][i].fn = "googleSearch" /\ HasReturned(calls[r][i])
            /\ calls[r][i].ret.value = << >>
       /\ Len(CallsOf(r, "openaiChatAnswer")) = 1

\* The step in which the pending openaiChatAnswer call of slot r throws.
GenFailStep(r) ==
  /\ pc[r] = "openai" /\ pc'[r] = "done"
  /\ IsThrow(calls'[r][Len(calls'[r])].ret)

\* C5 as claimed: when openaiChatAnswer throws, the request is answered 500
\* and the cache is what it was when the request started.
C5_CacheAsAtStart ==
  [][\A r \in Slots : GenFailStep(r) =>
       /\ sent'[r][1].status = 500
       /\ cache' = cache0[r]]_vars

\* C5 as amended: when openaiChatAnswer throws, the request is answered once,
\* 500 with the error's message; the step leaves the cache as it is and the
\* request has made no cache.set.
C5_FailureWritesNothing ==
  [][\A r \in Slots : GenFailStep(r) =>
       /\ sent'[r] = <<[status |-> 500,
                        body |-> [error |-> calls'[r][Len(calls'[r])].ret.threw]]>>
       /\ cache' = cache
       /\ writes'[r] = << >>]_vars

C5_Witness ==
  \E r \in Slots :
    /\ pc[r] = "done" /\ GenFailed(r)
    /\ Len(sent[r]) = 1 /\ Resp(r).status = 500
    /\ writes[r] = << >>
    /\ cache # << >>

\* The step in which the pending googleSearch call of slot r returns items.
WebItemsStep(r) ==
  /\ pc[r] = "google" /\ pc'[r] # "google"
  /\ calls[r][1].ret = Returned(<< >>)
  /\ HasReturned(calls'[r][Len(calls[r])])
  /\ Len(calls'[r][Len(calls[r])].ret.value) > 0

\* C7: when primarySearch returned [] and googleSearch returns a non-empty
\* list, the request ends answered once, 200 with source "google" and that
\* list as results; the cache then holds that body under the query; and
\* openaiChatAnswer is not called.
C7_WebOutcome ==
  [][\A r \in Slots : WebItemsStep(r) =>
       LET result == [source |-> "google",
                      results |-> calls'[r][Len(calls[r])].ret.value] IN
       /\ pc'[r] = "done"
       /\ sent'[r] = <<[status |-> 200, body |-> result]>>
       /\ \E i \in DOMAIN cache' : cache'[i].key = q[r] /\ cache'[i].value = result
       /\ \A i \in DOMAIN calls'[r] : calls'[r][i].fn # "openaiChatAnswer"]_vars

C7_Witness ==
  \E r \in Slots :
    /\ pc[r] = "done" /\ Len(sent[r]) = 1 /\ Resp(r).status = 200
    /\ Resp(r).body.source = "google"
    /\ Len(Resp(r).body.results) = 2
    /\ Resp(r).body.results = CallsOf(r, "googleSearch")[1].ret.value
    /\ \E i \in DOMAIN cache : cache[i].key = q[r] /\ cache[i].value = Resp(r).body

\* The step in which a request arrives in slot r.
StartStep(r) ==
  /\ pc[r] \in {"idle", "done"}
  /\ <<pc'[r], q'[r], sent'[r], calls'[r]>> # <<pc[r], q[r], sent[r], calls[r]>>

\* Slot r is answered in this step from the cache: once, 200, with outcome
\* out, and without a call to an adapter.
ServedFromCache(r, out) ==
  /\ pc'[r] = "done"
  /\ Len(sent'[r]) = 1
  /\ sent'[r][1].status = 200
  /\ Outcome(sent'[r][1].body) = out
  /\ calls'[r] = << >>

\* C6: a request for a key arriving within the TTL of the outcome that was
\* answered and stored last for that key, the key not evicted since, is
\* answered with that same outcome and calls no adapter.
C6_SameAsLastStored ==
  [][\A r \in Slots : (StartStep(r) /\ q'[r] # << >>) =>
       LET last == lastOut[q'[r]] IN
       (last # NoOut /\ now - last.at <= ttl) => ServedFromCache(r, last.body)]_vars

\* The step in which slot r ends with a fresh outcome: 200 after a store.
StoreStep(r) ==
  /\ pc[r] \in InFlight /\ pc'[r] = "done"
  /\ Len(sent'[r]) = 1 /\ sent'[r][1].status = 200

\* Slots r and p resolved the same key at the same time: one arrived, and
\* missed, while the other was in flight.
Peers(r, p) == r # p /\ (peer[r] = p \/ peer[p] = r)

\* Slot p has ended with a fresh outcome.
FreshDone(p) ==
  /\ pc[p] = "done" /\ Len(sent[p]) = 1 /\ sent[p][1].status = 200
  /\ calls[p] # << >>

\* The body is the outcome of the adapter calls of log: the items its
\* googleSearch call returned or the text its openaiChatAnswer call returned.
OwnOutcome(log, body) ==
  /\ log[1].fn = "primarySearch"
  /\ \E i \in DOMAIN log :
       /\ "value" \in DOMAIN log[i].ret
       /\ \/ log[i].fn = "googleSearch"
             /\ body = [source |-> "google", results |-> log[i].ret.value]
          \/ log[i].fn = "openaiChatAnswer"
             /\ body = [source |-> "openai", answer |-> log[i].ret.value.text]

\* C10: when the second of two concurrent resolutions of one key ends with an
\* outcome, both have called the adapters themselves, each is answered with
\* the outcome of its own calls, and the cache holds one entry for the key,
\* whose value is the outcome of the one that ends now.
C10_LastWriterWins ==
  [][\A r \in Slots, p \in Slots : (StoreStep(r) /\ Peers(r, p) /\ FreshDone(p)) =>
       /\ q[p] = q[r]
       /\ OwnOutcome(calls'[r], sent'[r][1].body)
       /\ OwnOutcome(calls[p], sent[p][1].body)
       /\ sent'[p] = sent[p]
       /\ Cardinality(EntriesOf(cache', q[r])) = 1
       /\ \A i \in EntriesOf(cache', q[r]) : cache'[i].value = sent'[r][1].body]_vars

C10_Witness ==
  \E r \in Slots, p \in Slots :
    /\ Peers(r, p) /\ FreshDone(r) /\ FreshDone(p) /\ q[r] = q[p]
    /\ sent[r][1].body # sent[p][1].body
    /\ Cardinality(EntriesOf(cache, q[r])) = 1
    /\ \A i \in EntriesOf(cache, q[r]) :
         cache[i].value = sent[r][1].body /\ cache[i].value # sent[p][1].body

\* C8: a request for a key whose entry was last stored more than ttl ago is
\* not answered from the cache: it is left unanswered with primarySearch
\* called; and a request answered from the cache leaves the start of the
\* entry unchanged.
C8_ExpiredIsAbsent ==
  [][\A r \in Slots : (StartStep(r) /\ q'[r] \in KeysOf(cache)) =>
       LET k == q'[r] IN
       /\ now - lastOut[k].at > ttl =>
            /\ pc'[r] = "primary"
            /\ sent'[r] = << >>
            /\ calls'[r] = <<Call("primarySearch", <<k>>)>>
       /\ (pc'[r] = "done" /\ k \in KeysOf(cache')) =>
            cache'[IndexOf(cache', k)].start = cache[IndexOf(cache, k)].start]_vars

C8_Witness ==
  \E r \in Slots :
    /\ pc[r] = "primary" /\ sent[r] = << >>
    /\ q[r] \in KeysOf(cache)
    /\ now - lastOut[q[r]].at > ttl
    /\ cache[Len(cache)].key = q[r] /\ Len(cache) = CacheMax

\* C9: a step that stores a new key in a full cache removes exactly one
\* entry, the one whose last use, by a cache hit or a store, is the oldest;
\* a step that stores a new key in a cache that is not full removes none.
C9_EvictsLeastRecentlyUsed ==
  [][KeysOf(cache') \ KeysOf(cache) # {} =>
       IF Len(cache) = CacheMax
       THEN /\ Len(cache') = CacheMax
            /\ KeysOf(cache) \ KeysOf(cache') = {Head(recency)}
       ELSE KeysOf(cache) \subseteq KeysOf(cache')]_vars

\* An entry was evicted while an entry stored before it stayed.
C9_Witness ==
  /\ lastVictim # NoOut
  /\ \E i \in DOMAIN cache : cache[i].start < lastVictim.start

\* req.query has no q, or a q of nothing but whitespace.
NoQuery(query) ==
  "q" \notin DOMAIN query \/ \A i \in DOMAIN query.q : query.q[i] \in Whitespace

\* req.body has no prompt, or a prompt of nothing but whitespace.
NoPrompt(body) ==
  "prompt" \notin DOMAIN body \/ \A i \in DOMAIN body.prompt : body.prompt[i] \in Whitespace

\* The step in which a GET /search request arrives in slot r.
SearchArrives(r) ==
  /\ pc[r] \in {"idle", "done"}
  /\ <<pc'[r], q'[r], sent'[r], calls'[r], reqQuery'[r]>>
       # <<pc[r], q[r], sent[r], calls[r], reqQuery[r]>>

\* The step in which a POST /ai request arrives.
AiArrives ==
  /\ aiPc \in {"idle", "done"}
  /\ <<aiPc', reqBody', fetched', aiSent'>> # <<aiPc, reqBody, fetched, aiSent>>

Interpretable(data) ==
  /\ "choices" \in DOMAIN data
  /\ Len(data.choices) >= 1
  /\ "message" \in DOMAIN data.choices[1]
  /\ "content" \in DOMAIN data.choices[1].message

\* C12: every openaiChatAnswer call that has returned was given a response
\* of the expected shape, and no request is answered with, and no cache entry
\* holds, a generated outcome without an answer.
C12_NoEmptySuccess ==
  /\ \A r \in Slots : \A i \in DOMAIN calls[r] :
       (calls[r][i].fn = "openaiChatAnswer" /\ HasReturned(calls[r][i]))
         => Interpretable(calls[r][i].ret.value.raw)
  /\ \A r \in Slots : \A i \in DOMAIN sent[r] :
       (sent[r][i].status = 200 /\ "answer" \in DOMAIN sent[r][i].body)
         => sent[r][i].body.answer # << >>
  /\ \A i \in DOMAIN cache :
       cache[i].value.source = "openai" => cache[i].value.answer # << >>

\* A step of the POST /ai handler: a request arrives or its reply does.
AiStep == <<aiPc', reqBody', fetched', aiSent'>> # <<aiPc, reqBody, fetched, aiSent>>

\* C13: no step of a POST /ai request calls primarySearch, googleSearch or
\* openaiChatAnswer or changes the cache or the order of use of its entries,
\* whether the request is answered 200, 400 or 500; and the one request it
\* sends to the chat completions endpoint carries two messages, the system
\* message and the trimmed prompt as the user's, and none from a search.
C13_AiBypassesChain ==
  [][AiStep =>
       /\ calls' = calls
       /\ cache' = cache /\ recency' = recency /\ writes' = writes
       /\ Len(fetched') <= 1
       /\ \A i \in DOMAIN fetched' :
            LET m == fetched'[i].req.messages IN
            /\ fetched'[i].req.url = "https://api.openai.com/v1/chat/completions"
            /\ Len(m) = 2
            /\ m[1].role = "system"
            /\ m[2] = [role |-> "user", content |-> trim(reqBody'.prompt)]]_vars

\* A POST /ai request has been answered with a reply while the cache held
\* the outcome of a GET /search request.
C13_Witness ==
  /\ aiPc = "done" /\ Len(aiSent) = 1 /\ aiSent[1].status = 200
  /\ aiSent[1].body.reply = <<"x">>
  /\ Len(fetched) = 1 /\ fetched[1].ret.ok
  /\ cache # << >>
  /\ \E r \in Slots : pc[r] = "done" /\ writes[r] # << >>

\* C14: with OPENAI_API_KEY missing, every openaiChatAnswer call that has
\* ended has thrown the not-configured error, and a POST /ai request with a
\* prompt sends nothing to the provider and is answered 500; with
\* GOOGLE_API_KEY or GOOGLE_CX missing, every googleSearch call that has
\* ended has thrown the not-configured error.
C14_NotConfiguredEverywhere ==
  /\ OPENAI_API_KEY = "" =>
       /\ \A r \in Slots : \A i \in DOMAIN calls[r] :
            (calls[r][i].fn = "openaiChatAnswer" /\ calls[r][i].ret # Pending)
              => calls[r][i].ret = Threw(<<"OPENAI_API_KEY not set.">>)
       /\ fetched = << >>
       /\ (aiPc = "done" /\ ~NoPrompt(reqBody)) =>
            (Len(aiSent) = 1 /\ aiSent[1].status = 500)
  /\ (GOOGLE_API_KEY = "" \/ GOOGLE_CX = "") =>
       \A r \in Slots : \A i \in DOMAIN calls[r] :
         (calls[r][i].fn = "googleSearch" /\ calls[r][i].ret # Pending)
           => calls[r][i].ret = Threw(<<"Google API key or CX not configured.">>)

\* The adapters in the order of the chain.
Chain == <<"primarySearch", "googleSearch", "openaiChatAnswer">>

\* C15: the adapter calls of a request are, in order, a beginning of
\* primarySearch, googleSearch, openaiChatAnswer, so each is called at most
\* once; a call is made only when every earlier call has returned or thrown,
\* so at most one is pending; and a pending call is the one the request is
\* waiting for.
C15_StrictlySequential ==
  \A r \in Slots :
    /\ Len(calls[r]) <= Len(Chain)
    /\ \A i \in DOMAIN calls[r] :
         /\ calls[r][i].fn = Chain[i]
         /\ i < Len(calls[r]) => calls[r][i].ret # Pending
         /\ calls[r][i].ret = Pending =>
              (pc[r] \in InFlight /\ calls[r][i].fn =
                 [primary |-> Chain[1], google |-> Chain[2], openai |-> Chain[3]][pc[r]])
    /\ pc[r] \in InFlight =>
         (calls[r] # << >> /\ calls[r][Len(calls[r])].ret = Pending)

\* One request has gone through the three adapters, the web search having
\* failed, while another request is waiting for its own web search.
C15_Witness ==
  \E r \in Slots, p \in Slots :
    /\ r # p
    /\ pc[r] = "done" /\ Len(calls[r]) = 3 /\ HasThrown(calls[r][2])
    /\ calls[r][3].ret # Pending
    /\ pc[p] = "google" /\ Len(calls[p]) = 2 /\ calls[p][2].ret = Pending

\* The cache holds at most CacheMax entries and no two under one key.
CacheBounded ==
  /\ Len(cache) <= CacheMax
  /\ \A i \in DOMAIN cache, j \in DOMAIN cache : cache[i].key = cache[j].key => i = j

\* A store by slot r for a key the cache already holds leaves the cache with
\* the same keys, one entry for the key, whose value is the outcome stored
\* now and nothing of the previous value, and the other entries as they were.
Replaces(r) ==
  (StoreStep(r) /\ q[r] \in KeysOf(cache)) =>
    /\ Len(cache') = Len(cache) /\ KeysOf(cache') = KeysOf(cache)
    /\ Cardinality(EntriesOf(cache', q[r])) = 1
    /\ cache'[IndexOf(cache', q[r])].value = sent'[r][1].body
    /\ \A k \in KeysOf(cache) \ {q[r]} :
         cache'[IndexOf(cache', k)] = cache[IndexOf(cache, k)]

\* C16: in every state the cache holds at most max entries (CacheMax here,
\* 500 in the program) and at most one per key, whatever the interleaving of
\* the requests; and a store for a key already held replaces its entry.
C16_BoundedOnePerKey ==
  []CacheBounded /\ [][\A r \in Slots : Replaces(r)]_vars

\* The cache is full and has evicted an entry, and two concurrent requests
\* for one key have both stored, outcomes of different sources: the cache
\* holds one entry for the key, with the outcome stored last.
C16_Witness ==
  /\ Len(cache) = CacheMax /\ lastVictim # NoOut
  /\ \E r \in Slots, p \in Slots :
       /\ r # p /\ FreshDone(r) /\ FreshDone(p) /\ q[r] = q[p]
       /\ writes[r] # << >> /\ writes[p] # << >>
       /\ sent[r][1].body.source # sent[p][1].body.source
       /\ Cardinality(EntriesOf(cache, q[r])) = 1
       /\ cache[IndexOf(cache, q[r])].value = sent[r][1].body

\* k is s without its surrounding whitespace: s is whitespace, k, whitespace,
\* and k neither begins nor ends with whitespace.
IsTrimOf(k, s) ==
  /\ k # << >> => (k[1] \notin Whitespace /\ k[Len(k)] \notin Whitespace)
  /\ \E a \in 0 .. Len(s) :
       /\ a + Len(k) <= Len(s)
       /\ SubSeq(s, a + 1, a + Len(k)) = k
       /\ \A i \in 1 .. Len(s) : (i <= a \/ i > a + Len(k)) => s[i] \in Whitespace

\* The step in which slot r is answered from the cache.
HitStep(r) ==
  /\ StartStep(r) /\ pc'[r] = "done"
  /\ Len(sent'[r]) = 1 /\ sent'[r][1].status = 200

\* C17: every key of the cache is a non-empty string without surrounding
\* whitespace; the key a request looks up, and the key of every store it
\* makes, is its q parameter without the surrounding whitespace; and a
\* request answered from the cache with an outcome is answered with the
\* entry whose key is exactly that, so that "a" and " a " meet on one entry and "a", "A" and
\* "a." do not.
C17_KeyIsTrimmedQuery ==
  /\ [](/\ \A i \in DOMAIN cache :
             cache[i].key # << >> /\ IsTrimOf(cache[i].key, cache[i].key)
        /\ \A r \in Slots : pc[r] # "idle" =>
             /\ IsTrimOf(q[r], QueryQ(reqQuery[r]))
             /\ \A i \in DOMAIN writes[r] : writes[r][i].key = q[r])
  /\ [][\A r \in Slots : HitStep(r) =>
          \/ "source" \notin DOMAIN sent'[r][1].body
          \/ \E i \in DOMAIN cache :
               /\ IsTrimOf(cache[i].key, QueryQ(reqQuery'[r]))
               /\ Outcome(sent'[r][1].body) = cache[i].value]_vars

\* The request " a " has been answered from the entry another request
\* stored under "a", while the cache also holds an entry under "A".
C17_Witness ==
  \E r \in Slots, p \in Slots :
    /\ r # p /\ pc[r] = "done" /\ reqQuery[r] = [q |-> <<" ", "a", " ">>]
    /\ Len(sent[r]) = 1 /\ Resp(r).status = 200 /\ "cached" \in DOMAIN Resp(r).body
    /\ "source" \in DOMAIN Resp(r).body
    /\ KeysOf(cache) = { <<"a">>, <<"A">> }
    /\ FreshDone(p) /\ q[p] = <<"A">>

\* C18: every 200 response of GET /search has a source and results or an
\* answer; a response has the cached flag exactly when the request called no
\* adapter, and then it too has the source and the payload, whenever the two
\* cache calls of the lookup read the clock.
C18_CompleteOutcome ==
  \A r \in Slots : \A i \in DOMAIN sent[r] :
    sent[r][i].status = 200 =>
      LET body == sent[r][i].body IN
      /\ "source" \in DOMAIN body
      /\ "results" \in DOMAIN body \/ "answer" \in DOMAIN body
      /\ "cached" \in DOMAIN body <=> calls[r] = << >>

\* C19: the value of every cache entry is { source, results } with source
\* "primary" or "google" and at least one item, or { source, answer } with
\* source "openai" (the answer is the text openaiChatAnswer returned, which
\* may be empty); in particular it has no error and no cached flag.
C19_EntryShapes ==
  \A i \in DOMAIN cache :
    LET v == cache[i].value IN
    \/ /\ DOMAIN v = {"source", "results"}
       /\ v.source \in {"primary", "google"}
       /\ Len(v.results) > 0
    \/ /\ DOMAIN v = {"source", "answer"}
       /\ v.source = "openai"

\* The cache holds a web outcome under one key and a generated outcome under
\* another.
C19_Witness ==
  \E i \in DOMAIN cache, j \in DOMAIN cache :
    /\ cache[i].value.source = "google" /\ Len(cache[i].value.results) = 2
    /\ cache[j].value.source = "openai" /\ cache[j].value.answer = <<"x">>

\* Slot r is at rest after a request and no new request arrives in it.
Rests(r) == pc[r] = "done" /\ ~SearchArrives(r)

\* C20: a request that waits for an adapter is over in the end; a request
\* that is over has been answered exactly once, with 200, 400 or 500, and
\* one that is not over has not been answered; and once it is over it makes
\* no adapter call, no cache.set and sends nothing.
C20_ExactlyOneResponse ==
  /\ \A r \in Slots : (pc[r] \in InFlight) ~> (pc[r] = "done")
  /\ [](\A r \in Slots :
          /\ pc[r] = "done" => (Len(sent[r]) = 1 /\ Resp(r).status \in {200, 400, 500})
          /\ pc[r] \in InFlight => sent[r] = << >>)
  /\ [][\A r \in Slots : Rests(r) =>
          (calls'[r] = calls[r] /\ writes'[r] = writes[r] /\ sent'[r] = sent[r])]_vars

\* One request has ended with 500 after its three adapter calls and another
\* with 200 after its own.
C20_Witness ==
  \E r \in Slots, p \in Slots :
    /\ pc[r] = "done" /\ Len(calls[r]) = 3 /\ Len(sent[r]) = 1 /\ Resp(r).status = 500
    /\ pc[p] = "done" /\ calls[p] # << >> /\ Len(sent[p]) = 1 /\ Resp(p).status = 200

====
